---- MODULE Spec2Model ----
\* Window / frame-buffer lifecycle tracker of examples/22-windows/windows.cpp
\* (class ExampleWindows): the slot table m_windows / m_fbh, the frame tick
\* update(), and the key-bound requests createWindow() / destroyWindow().
\* The windowing collaborator (entry::) and the renderer (bgfx::) are modelled
\* only as far as the tracker observes them.
EXTENDS Integers, Sequences, FiniteSets, TLC

\* ---------------------------------------------------------------- constants
MAX_WINDOWS == 8
UINT16_MAX == 65535
kInvalidHandle == 65535
NULL == 0
GridSide == 11

\* ------------------------------------------------------------------- bounds
\* Windows the windowing system can hold at once, the default window included
\* (ENTRY_CONFIG_MAX_WINDOWS of the entry layer): entry::createWindow() hands
\* out the handles 1..MaxEntryWindows-1.
MaxEntryWindows == 2
\* The window sizes the windowing system reports are SizeW(k) x SizeH(k) for
\* k in 0..MaxSize.
MaxSize == 1

Slots == 0..(MAX_WINDOWS - 1)
Sizes == 0..MaxSize
\* 640 x 480 is the size createWindow() asks for; the others are resizes, of
\* the width alone, of the height alone, of both.
SizeW(k) == 640 + 160 * (k % 2)
SizeH(k) == 480 + 120 * ((k \div 2) % 2) + 240 * (k \div 4)

VARIABLES
    m_windows,   \* entry::WindowState m_windows[MAX_WINDOWS]
    m_fbh,       \* bgfx::FrameBufferHandle m_fbh[MAX_WINDOWS]
    m_state,     \* entry::WindowState m_state (last reported window state)
    m_width,     \* size of the default window
    m_height,
    osWin,       \* windowing system: the window behind each handle index
    liveFb,      \* renderer: frame buffer handles created and not destroyed
    views,       \* renderer: per-view frame buffer, clear flag and rectangle
    submitted,   \* renderer: draw calls submitted to each view in the last tick
    calls,       \* collaborator calls made by the last handler, in order
    lastOp       \* the handler that ran last

vars == <<m_windows, m_fbh, m_state, m_width, m_height, osWin, liveFb,
          views, submitted, calls, lastOp>>

\* ------------------------------------------------------------ data helpers
\* entry::WindowState as far as the tracker reads it.
WindowState(handle, nwh, width, height) ==
    [m_handle |-> handle, m_nwh |-> nwh, m_width |-> width, m_height |-> height]

\* entry::WindowState::WindowState(): no handle, no native window, 0 x 0.
DefaultWindowState == WindowState(UINT16_MAX, NULL, 0, 0)

\* entry::isValid(WindowHandle)
isValidWindow(handle) == handle # UINT16_MAX

\* bgfx::isValid(FrameBufferHandle)
isValid(fbh) == fbh # kInvalidHandle

\* uint16_t(x)
U16(x) == x % 65536

\* The native window handle of the OS window behind handle index idx.
Nwh(idx) == idx + 1

\* One collaborator call, as the handlers issue it: the operation, the slot it
\* is issued for, and its arguments and result.
Call(op, slot, handle, nwh, width, height, fb, prev) ==
    [op |-> op, slot |-> slot, handle |-> handle, nwh |-> nwh, width |-> width,
     height |-> height, fb |-> fb, prev |-> prev]

\* bgfx::frame()
CallFrame ==
    Call("frame", 0, UINT16_MAX, NULL, 0, 0, kInvalidHandle, kInvalidHandle)
\* bgfx::destroy(m_fbh[slot])
CallDestroyFb(slot, fb) ==
    Call("destroyFrameBuffer", slot, UINT16_MAX, NULL, 0, 0, fb, fb)
\* m_fbh[slot] = bgfx::createFrameBuffer(nwh, width, height); prev is the
\* handle m_fbh[slot] held when the call was made, fb the handle returned.
CallCreateFb(slot, nwh, width, height, fb, prev) ==
    Call("createFrameBuffer", slot, UINT16_MAX, nwh, width, height, fb, prev)
\* entry::destroyWindow(m_windows[slot].m_handle)
CallDestroyWindow(slot, handle) ==
    Call("destroyWindow", slot, handle, NULL, 0, 0, kInvalidHandle, kInvalidHandle)
\* entry::createWindow(...) returning handle
CallCreateWindow(handle) ==
    Call("createWindow", handle % MAX_WINDOWS, handle, NULL, 640, 480,
         kInvalidHandle, kInvalidHandle)

\* ------------------------------------------------------------ collaborators
\* bgfx::createFrameBuffer(nwh, w, h) returns the first handle that is not
\* live, or the invalid handle when the renderer cannot create the frame buffer.
FreeFb(live) ==
    CHOOSE h \in 0..Cardinality(live) :
        h \notin live /\ \A k \in 0..(h - 1) : k \in live

\* entry::createWindow(): the handle of the first free window slot of the
\* windowing system (slot 0 is the default window), invalid when none is free.
EntryCreateWindow(os) ==
    IF \E i \in 1..(MaxEntryWindows - 1) : os[i] = "none"
    THEN CHOOSE i \in 1..(MaxEntryWindows - 1) :
            os[i] = "none" /\ \A k \in 1..(i - 1) : os[k] # "none"
    ELSE UINT16_MAX

\* entry::destroyWindow(handle): the window closes asynchronously; its closure
\* is reported by a later window event.
EntryDestroyWindow(os, idx) ==
    IF idx \in DOMAIN os /\ os[idx] \in {"new", "open"}
    THEN [os EXCEPT ![idx] = "closing"]
    ELSE os

\* entry::processWindowEvents(m_state, ...): the window states one tick can
\* report.  has = FALSE: no window event, m_state keeps its value.
\* The default window reports a size; a window whose creation has not been
\* reported yet reports its native handle; an open window reports a size or
\* (closed by the user) a null native handle; a window being destroyed may still
\* report a size before it reports its closure.
ReportNwhs(i) == IF osWin[i] = "new" THEN {Nwh(i)} ELSE {NULL, Nwh(i)}

Reports ==
    {[has |-> FALSE, st |-> m_state]}
    \cup {[has |-> TRUE, st |-> WindowState(0, Nwh(0), SizeW(k), SizeH(k))] :
            k \in Sizes}
    \cup UNION {
            {[has |-> TRUE, st |-> WindowState(i, n, SizeW(k), SizeH(k))] :
                n \in ReportNwhs(i), k \in Sizes} :
            i \in {j \in DOMAIN osWin : osWin[j] # "none"}}

\* The windowing system after it has reported ev: a reported native handle
\* makes a new window open, a reported closure frees its slot.
OsAfterReport(os, ev) ==
    IF ev.has /\ ev.st.m_handle # 0
    THEN [os EXCEPT ![ev.st.m_handle] =
            IF ev.st.m_nwh = NULL THEN "none"
            ELSE IF @ = "new" THEN "open" ELSE @]
    ELSE os

\* ------------------------------------------------------------------ update
\* Changed without the width comparison of line 328.
ChangedNoWidth(win, st) ==
    \/ win.m_nwh # st.m_nwh
    \/ win.m_height # st.m_height

\* update(), lines 327-329: the reported state differs from the stored one.
Changed(win, st) ==
    \/ win.m_nwh # st.m_nwh
    \/ win.m_width # st.m_width
    \/ win.m_height # st.m_height

\* IsTracked without the branch for the default window (line 317).
IsTrackedAnyValid(st) == isValidWindow(st.m_handle)

\* update(), lines 315-324: the reported window is a valid, non-default one.
IsTracked(st) == isValidWindow(st.m_handle) /\ st.m_handle # 0

\* DropFrameBuffer without lines 333-337: the old frame buffer is kept.
DropFrameBufferKeep(fbh, live, viewId) ==
    [fbh |-> fbh, live |-> live, calls |-> <<>>]

\* update(), lines 333-337: the slot's frame buffer, if any, is destroyed and
\* its handle reset.
DropFrameBuffer(fbh, live, viewId) ==
    IF isValid(fbh[viewId])
    THEN [fbh |-> [fbh EXCEPT ![viewId] = kInvalidHandle],
          live |-> live \ {fbh[viewId]},
          calls |-> <<CallDestroyFb(viewId, fbh[viewId])>>]
    ELSE [fbh |-> fbh, live |-> live, calls |-> <<>>]

\* update(), lines 339-341: the reported values become the stored ones.
StoreReported(win, st) ==
    [win EXCEPT !.m_nwh = st.m_nwh, !.m_width = st.m_width,
                !.m_height = st.m_height]

\* TickSlot storing the reported values only once the frame buffer exists, so
\* that a failed creation is retried on the next tick.
TickSlotRetry(fbh, wins, live, st, created) ==
    LET viewId == st.m_handle % 256
        win == wins[viewId]
        d == DropFrameBuffer(fbh, live, viewId)
        win1 == StoreReported(win, st)
        fb == IF created THEN FreeFb(d.live) ELSE kInvalidHandle
    IN  IF ~Changed(win, st)
        THEN [fbh |-> fbh, wins |-> wins, live |-> live, calls |-> <<>>]
        ELSE IF win1.m_nwh # NULL
        THEN [fbh |-> [d.fbh EXCEPT ![viewId] = fb],
              wins |-> IF isValid(fb) THEN [wins EXCEPT ![viewId] = win1] ELSE wins,
              live |-> IF isValid(fb) THEN d.live \cup {fb} ELSE d.live,
              calls |-> Append(d.calls,
                  CallCreateFb(viewId, win1.m_nwh, U16(win1.m_width),
                               U16(win1.m_height), fb, d.fbh[viewId]))]
        ELSE [fbh |-> d.fbh,
              wins |-> [wins EXCEPT ![viewId] = [win1 EXCEPT !.m_handle = UINT16_MAX]],
              live |-> d.live,
              calls |-> d.calls]

\* update(), lines 322-351: the reported window is a non-default one.
\* created tells whether bgfx::createFrameBuffer returns a valid handle.
TickSlot(fbh, wins, live, st, created) ==
    LET viewId == st.m_handle % 256
        win == wins[viewId]
        d == DropFrameBuffer(fbh, live, viewId)
        win1 == StoreReported(win, st)
        fb == IF created THEN FreeFb(d.live) ELSE kInvalidHandle
    IN  IF ~Changed(win, st)
        THEN [fbh |-> fbh, wins |-> wins, live |-> live, calls |-> <<>>]
        ELSE IF win1.m_nwh # NULL
        THEN [fbh |-> [d.fbh EXCEPT ![viewId] = fb],
              wins |-> [wins EXCEPT ![viewId] = win1],
              live |-> IF isValid(fb) THEN d.live \cup {fb} ELSE d.live,
              calls |-> Append(d.calls,
                  CallCreateFb(viewId, win1.m_nwh, U16(win1.m_width),
                               U16(win1.m_height), fb, d.fbh[viewId]))]
        ELSE [fbh |-> d.fbh,
              wins |-> [wins EXCEPT ![viewId] = [win1 EXCEPT !.m_handle = UINT16_MAX]],
              live |-> d.live,
              calls |-> d.calls]

\* update(), lines 396-425: view ii is bound to the slot's frame buffer; without
\* one it covers the default backbuffer and does not clear.
ViewSetup(ii, fbh, wins, width, height) ==
    IF ~isValid(fbh[ii])
    THEN [fb |-> fbh[ii], w |-> U16(width), h |-> U16(height), clear |-> "NONE"]
    ELSE [fb |-> fbh[ii], w |-> U16(wins[ii].m_width), h |-> U16(wins[ii].m_height),
          clear |-> "COLOR|DEPTH"]

\* SubmitView without the distribution over the views: every cube to view 0.
SubmitViewZero(count) == 0

\* update(), line 464: the view cube number count is submitted to.
SubmitView(count) == count % MAX_WINDOWS

\* update(), lines 440-467: the draw calls each view receives from the
\* 11x11 grid; count is yy * 11 + xx.
SubmitCubes ==
    [v \in Slots |->
        Cardinality({c \in {yy * GridSide + xx : yy \in 0..(GridSide - 1),
                                                  xx \in 0..(GridSide - 1)} :
                        SubmitView(c) = v})]

\* update() on a tick where processWindowEvents() does not ask to exit.
Update ==
    \E ev \in Reports, created \in BOOLEAN :
        LET st == ev.st
            r == IF IsTracked(st)
                 THEN TickSlot(m_fbh, m_windows, liveFb, st, created)
                 ELSE [fbh |-> m_fbh, wins |-> m_windows, live |-> liveFb,
                       calls |-> <<>>]
            width == IF isValidWindow(st.m_handle) /\ st.m_handle = 0
                     THEN st.m_width ELSE m_width
            height == IF isValidWindow(st.m_handle) /\ st.m_handle = 0
                      THEN st.m_height ELSE m_height
        IN  /\ created \/ (\E c \in 1..Len(r.calls) : r.calls[c].op = "createFrameBuffer")
            /\ m_state' = st
            /\ m_width' = width
            /\ m_height' = height
            /\ m_fbh' = r.fbh
            /\ m_windows' = r.wins
            /\ liveFb' = r.live
            /\ osWin' = OsAfterReport(osWin, ev)
            /\ views' = [ii \in 1..(MAX_WINDOWS - 1) |->
                            ViewSetup(ii, r.fbh, r.wins, width, height)]
            /\ submitted' = SubmitCubes
            /\ calls' = Append(r.calls, CallFrame)
            /\ lastOp' = "update"

\* ------------------------------------------------------------ createWindow
\* RecordWindow storing the handle in the first slot of the table whose window
\* handle is invalid instead of the slot of the handle's index.
RecordWindowFirstFree(wins, handle) ==
    LET free == {i \in Slots : ~isValidWindow(wins[i].m_handle)}
        first == CHOOSE i \in free : \A j \in free : i <= j
    IN  [wins EXCEPT ![first].m_handle = handle]

\* createWindow(), line 487: the handle is stored in the slot of its index.
RecordWindow(wins, handle) ==
    [wins EXCEPT ![handle].m_handle = handle]

\* createWindow(), lines 479-489.
CreateWindow ==
    LET handle == EntryCreateWindow(osWin)
    IN  /\ m_windows' = IF isValidWindow(handle)
                        THEN RecordWindow(m_windows, handle) ELSE m_windows
        /\ osWin' = IF isValidWindow(handle)
                    THEN [osWin EXCEPT ![handle] = "new"] ELSE osWin
        /\ calls' = <<CallCreateWindow(handle)>>
        /\ lastOp' = "createWindow"
        /\ UNCHANGED <<m_fbh, m_state, m_width, m_height, liveFb, views, submitted>>

\* ----------------------------------------------------------- destroyWindow
\* FlushFrameBuffer without the reset of line 498: the destroyed handle stays
\* in m_fbh.
FlushNoReset(fbh, live, ii) ==
    IF isValid(fbh[ii])
    THEN [fbh |-> fbh,
          live |-> live \ {fbh[ii]},
          calls |-> <<CallDestroyFb(ii, fbh[ii]), CallFrame, CallFrame>>]
    ELSE [fbh |-> fbh, live |-> live, calls |-> <<>>]

\* FlushFrameBuffer with one bgfx::frame() instead of two.
FlushOneFrame(fbh, live, ii) ==
    IF isValid(fbh[ii])
    THEN [fbh |-> [fbh EXCEPT ![ii] = kInvalidHandle],
          live |-> live \ {fbh[ii]},
          calls |-> <<CallDestroyFb(ii, fbh[ii]), CallFrame>>]
    ELSE [fbh |-> fbh, live |-> live, calls |-> <<>>]

\* destroyWindow(), lines 495-503: slot ii's frame buffer, if any, is
\* destroyed, its handle reset, and two frames flush the swap chain.
FlushFrameBuffer(fbh, live, ii) ==
    IF isValid(fbh[ii])
    THEN [fbh |-> [fbh EXCEPT ![ii] = kInvalidHandle],
          live |-> live \ {fbh[ii]},
          calls |-> <<CallDestroyFb(ii, fbh[ii]), CallFrame, CallFrame>>]
    ELSE [fbh |-> fbh, live |-> live, calls |-> <<>>]

\* destroyWindow(), lines 493-511: the scan from slot ii on.
RECURSIVE DestroyScan(_, _, _, _, _, _)
DestroyScan(ii, fbh, wins, live, os, log) ==
    IF ii >= MAX_WINDOWS
    THEN [fbh |-> fbh, wins |-> wins, live |-> live, os |-> os, calls |-> log]
    ELSE LET f == FlushFrameBuffer(fbh, live, ii)
         IN  IF isValidWindow(wins[ii].m_handle)
             THEN [fbh |-> f.fbh,
                   wins |-> [wins EXCEPT ![ii].m_handle = UINT16_MAX],
                   live |-> f.live,
                   os |-> EntryDestroyWindow(os, wins[ii].m_handle),
                   calls |-> Append(log \o f.calls,
                                    CallDestroyWindow(ii, wins[ii].m_handle))]
             ELSE DestroyScan(ii + 1, f.fbh, wins, f.live, os, log \o f.calls)

\* destroyWindow(), lines 491-512.
DestroyWindow ==
    LET r == DestroyScan(0, m_fbh, m_windows, liveFb, osWin, <<>>)
    IN  /\ m_fbh' = r.fbh
        /\ m_windows' = r.wins
        /\ liveFb' = r.live
        /\ osWin' = r.os
        /\ calls' = r.calls
        /\ lastOp' = "destroyWindow"
        /\ UNCHANGED <<m_state, m_width, m_height, views, submitted>>

\* -------------------------------------------------------------------- init
\* The constructor and init(): every slot is a default WindowState, every
\* frame buffer handle is invalid (memSet 0xff), the default window has the
\* size init() was given.
Init ==
    /\ m_windows = [i \in Slots |-> DefaultWindowState]
    /\ m_fbh = [i \in Slots |-> kInvalidHandle]
    /\ m_state = DefaultWindowState
    /\ \E k \in Sizes : m_width = SizeW(k) /\ m_height = SizeH(k)
    /\ osWin = [i \in 1..(MaxEntryWindows - 1) |-> "none"]
    /\ liveFb = {}
    /\ views = [ii \in 1..(MAX_WINDOWS - 1) |->
                    [fb |-> kInvalidHandle, w |-> 0, h |-> 0, clear |-> "NONE"]]
    /\ submitted = [v \in Slots |-> 0]
    /\ calls = <<>>
    /\ lastOp = "init"

Next == Update \/ CreateWindow \/ DestroyWindow

Spec == Init /\ [][Next]_vars

\* =================================================================== claims
NonDefault == 1..(MAX_WINDOWS - 1)

\* The positions of the last handler's calls of one operation.
CallsOf(log, op) == {k \in 1..Len(log) : log[k].op = op}

\* The calls of bgfx::frame() strictly between positions j and k.
FramesBetween(log, j, k) ==
    Cardinality({n \in (j + 1)..(k - 1) : log[n].op = "frame"})

\* -------------------------------------------------------------------- C1
\* C1: in every reachable state slot 0, the default window, has no frame
\* buffer: m_fbh[0] is the invalid handle, whatever the windowing system reports.
Thm_C1 == m_fbh[0] = kInvalidHandle

\* A tick has handled a report for the default window (its size was taken
\* over) while another slot holds a frame buffer.
Wit_C1 ==
    /\ lastOp = "update"
    /\ m_state.m_handle = 0
    /\ m_width = m_state.m_width /\ m_height = m_state.m_height
    /\ \E i \in NonDefault : isValid(m_fbh[i])

\* -------------------------------------------------------------------- C2
\* C2: createFrameBuffer is called for a slot only while the slot's handle is
\* invalid (the old frame buffer was destroyed first), so no live frame buffer
\* is overwritten: the renderer's live frame buffers are exactly the valid
\* handles of m_fbh, each held by one slot.
Thm_C2 ==
    /\ \A k \in CallsOf(calls, "createFrameBuffer") :
            calls[k].prev = kInvalidHandle
    /\ liveFb = {m_fbh[i] : i \in Slots} \ {kInvalidHandle}
    /\ \A i, j \in Slots : isValid(m_fbh[i]) /\ m_fbh[i] = m_fbh[j] => i = j

\* A tick has destroyed a slot's frame buffer and created the next one.
Wit_C2 ==
    /\ lastOp = "update"
    /\ Len(calls) = 3
    /\ calls[1].op = "destroyFrameBuffer"
    /\ calls[2].op = "createFrameBuffer"
    /\ calls[2].slot = calls[1].slot
    /\ isValid(calls[2].fb)

\* -------------------------------------------------------------------- C3
\* C3: when destroyWindow() returns after finding an occupied slot, that slot's
\* window handle is invalid and its frame buffer handle is invalid.
Thm_C3 ==
    lastOp = "destroyWindow" =>
        \A k \in CallsOf(calls, "destroyWindow") :
            /\ ~isValidWindow(m_windows[calls[k].slot].m_handle)
            /\ ~isValid(m_fbh[calls[k].slot])

\* A destroy request has destroyed a window whose slot held a frame buffer.
Wit_C3 ==
    /\ lastOp = "destroyWindow"
    /\ \E j \in CallsOf(calls, "destroyFrameBuffer"),
          k \in CallsOf(calls, "destroyWindow") : calls[j].slot = calls[k].slot

\* -------------------------------------------------------------------- C4
\* C4: a destroy request that destroys the OS window of a slot that held a frame
\* buffer destroys that frame buffer first, and at least two bgfx::frame() calls
\* lie between the two destructions.
Thm_C4 ==
    [][lastOp' = "destroyWindow" =>
        \A k \in CallsOf(calls', "destroyWindow") :
            LET s == calls'[k].slot
            IN  isValid(m_fbh[s]) =>
                    \E j \in 1..(k - 1) :
                        /\ calls'[j] = CallDestroyFb(s, m_fbh[s])
                        /\ FramesBetween(calls', j, k) >= 2]_vars

\* The request made exactly: destroy frame buffer, frame, frame, destroy window.
Wit_C4 ==
    /\ lastOp = "destroyWindow"
    /\ Len(calls) = 4
    /\ calls[1].op = "destroyFrameBuffer"
    /\ calls[2] = CallFrame /\ calls[3] = CallFrame
    /\ calls[4].op = "destroyWindow" /\ calls[4].slot = calls[1].slot

\* -------------------------------------------------------------------- C5
\* The non-default slots holding a valid window handle, and the lowest of a
\* non-empty set of slots.
Occupied(wins) == {i \in NonDefault : isValidWindow(wins[i].m_handle)}
Lowest(S) == CHOOSE i \in S : \A j \in S : i <= j

\* C5: a destroy request acts on the first occupied non-default slot only: it
\* destroys exactly that slot's window (never the default window) and only that
\* slot's frame buffer, and leaves the window handle and frame buffer of every
\* other slot unchanged; with no occupied slot it destroys no window.
Orig_C5 ==
    [][lastOp' = "destroyWindow" =>
        LET dw == CallsOf(calls', "destroyWindow")
            df == CallsOf(calls', "destroyFrameBuffer")
        IN  IF Occupied(m_windows) = {}
            THEN /\ dw = {}
                 /\ df = {}
                 /\ m_windows' = m_windows /\ m_fbh' = m_fbh
            ELSE LET t == Lowest(Occupied(m_windows))
                 IN  /\ Cardinality(dw) = 1
                     /\ \A k \in dw : calls'[k].slot = t /\ calls'[k].handle # 0
                     /\ \A k \in df : calls'[k].slot = t
                     /\ \A i \in Slots \ {t} :
                            m_windows'[i] = m_windows[i] /\ m_fbh'[i] = m_fbh[i]]_vars

Thm_C7 ==
    [][(lastOp' = "update" /\ isValidWindow(m_state'.m_handle)
            /\ m_state'.m_handle # 0) =>
        LET i == m_state'.m_handle
            old == m_windows[i]
            rep == m_state'
            differs == \/ old.m_nwh # rep.m_nwh
                       \/ old.m_width # rep.m_width
                       \/ old.m_height # rep.m_height
            cf == CallsOf(calls', "createFrameBuffer")
            df == CallsOf(calls', "destroyFrameBuffer")
        IN  /\ \A j \in Slots \ {i} :
                    m_windows'[j] = m_windows[j] /\ m_fbh'[j] = m_fbh[j]
            /\ IF differs
               THEN /\ IF isValid(m_fbh[i])
                       THEN /\ df = {1}
                            /\ calls'[1] = CallDestroyFb(i, m_fbh[i])
                            /\ \A k \in cf : k > 1
                       ELSE df = {}
                    /\ m_windows'[i].m_nwh = rep.m_nwh
                    /\ m_windows'[i].m_width = rep.m_width
                    /\ m_windows'[i].m_height = rep.m_height
                    /\ IF rep.m_nwh # NULL
                       THEN /\ Cardinality(cf) = 1
                            /\ \A k \in cf :
                                /\ calls'[k].slot = i
                                /\ calls'[k].nwh = rep.m_nwh
                                /\ calls'[k].width = rep.m_width
                                /\ calls'[k].height = rep.m_height
                                /\ calls'[k].fb = m_fbh'[i]
                            /\ m_windows'[i].m_handle = old.m_handle
                       ELSE /\ cf = {}
                            /\ ~isValid(m_fbh'[i])
                            /\ ~isValidWindow(m_windows'[i].m_handle)
               ELSE /\ cf = {} /\ df = {}
                    /\ m_windows'[i] = m_windows[i]
                    /\ m_fbh'[i] = m_fbh[i]]_vars

\* A tick has handled a resize of a window that keeps its native handle: the
\* old frame buffer is gone and a new one of the new size is in its place.
Wit_C7 ==
    /\ lastOp = "update"
    /\ \E i \in NonDefault :
        /\ m_state.m_handle = i
        /\ isValidWindow(m_windows[i].m_handle)
        /\ Len(calls) = 3
        /\ calls[1].op = "destroyFrameBuffer"
        /\ calls[2].op = "createFrameBuffer"
        /\ calls[2].width = SizeW(1) /\ calls[2].height = SizeH(1)
        /\ m_windows[i].m_width = SizeW(1)
        /\ m_fbh[i] = calls[2].fb /\ isValid(m_fbh[i])

\* -------------------------------------------------------------------- C8
\* C8: a createFrameBuffer that returns the invalid handle is no error: the
\* stored native handle and size are the reported ones all the same, a later
\* tick that reports the same window state again does not call createFrameBuffer,
\* a slot without a frame buffer gets a creation attempt only on a tick whose
\* report differs from the stored state, and the view of a slot without a frame
\* buffer targets the default backbuffer with clearing disabled.
Thm_C8 ==
    [][lastOp' = "update" =>
        LET cf == CallsOf(calls', "createFrameBuffer")
        IN  /\ \A k \in cf :
                ~isValid(calls'[k].fb) =>
                    /\ ~isValid(m_fbh'[calls'[k].slot])
                    /\ m_windows'[calls'[k].slot].m_nwh = m_state'.m_nwh
                    /\ m_windows'[calls'[k].slot].m_width = m_state'.m_width
                    /\ m_windows'[calls'[k].slot].m_height = m_state'.m_height
            /\ m_state' = m_state => cf = {}
            /\ \A k \in cf :
                LET old == m_windows[calls'[k].slot]
                IN  /\ m_state'.m_handle = calls'[k].slot
                    /\ \/ old.m_nwh # m_state'.m_nwh
                       \/ old.m_width # m_state'.m_width
                       \/ old.m_height # m_state'.m_height
            /\ \A i \in NonDefault :
                ~isValid(m_fbh'[i]) =>
                    /\ views'[i].fb = kInvalidHandle
                    /\ views'[i].clear = "NONE"
                    /\ views'[i].w = m_width' /\ views'[i].h = m_height']_vars

\* A tick has skipped an open window that has no frame buffer because its
\* creation failed: the report equals the stored state, nothing is created.
Wit_C8 ==
    /\ lastOp = "update"
    /\ calls = <<CallFrame>>
    /\ \E i \in NonDefault :
        /\ m_state.m_handle = i
        /\ m_state.m_nwh # NULL
        /\ m_windows[i].m_nwh = m_state.m_nwh
        /\ isValidWindow(m_windows[i].m_handle)
        /\ ~isValid(m_fbh[i])
        /\ views[i].clear = "NONE"

\* -------------------------------------------------------------------- C9
\* C9 as stated: in every tick each view that targets a window (view 0 and the
\* view of every slot with a frame buffer) is submitted all 121 cubes.
Orig_C9 ==
    lastOp = "update" =>
        \A v \in Slots :
            (v = 0 \/ isValid(m_fbh[v])) => submitted[v] = GridSide * GridSide

\* C9 as amended: in every tick the 121 cubes are spread over the views 0..7,
\* cube n going to view n % 8: view 0 is submitted 16 cubes and each of the
\* views 1..7 is submitted 15, whether or not the view has a frame buffer.
Thm_C9 ==
    lastOp = "update" =>
        /\ submitted[0] = 16
        /\ \A v \in NonDefault : submitted[v] = 15

\* A tick has run while a non-default slot holds a frame buffer.
Wit_C9 ==
    /\ lastOp = "update"
    /\ \E v \in NonDefault : isValid(m_fbh[v]) /\ views[v].fb = m_fbh[v]
    /\ submitted[0] > 0

\* ------------------------------------------------------------------- C10
\* C10: in every reachable state a non-default slot holds a valid frame buffer
\* only if its window handle is valid.
Orig_C10 ==
    \A i \in NonDefault :
        isValid(m_fbh[i]) => isValidWindow(m_windows[i].m_handle)

====
